---- MODULE Spec2Model ----
(***************************************************************************)
(* Model of reprclust/reproducibility.py: the cross-validation driver      *)
(* `reproducibility` (the orchestrator) and `_run_fold` (one fold's        *)
(* partition / train / predict / score cycle over the k-sweep).            *)
(*                                                                         *)
(* One behaviour is one call of reproducibility(...).  The arguments of    *)
(* the call are chosen in Init.  The orchestrator validates, builds the    *)
(* Cartesian product of the splitters, hands every fold to joblib's        *)
(* Parallel, and concatenates the per-fold tables.  A fold is run in three *)
(* kinds of steps: Dispatch (the call of _run_fold up to the allocation of *)
(* result_fold), Round (one iteration of the loop over ks) and Return.     *)
(*                                                                         *)
(* Python values are modelled as follows: a str that is split on '.' is a  *)
(* sequence of tokens, the token "." being the separator; a dict is a      *)
(* function from its keys; a 2-d array is a record of its shape and its    *)
(* rows; an object whose methods mutate it is the value of its state, and  *)
(* aliasing is modelled by which variable an update is written to.  The    *)
(* module is Python 2 code (map() returns a list, zip() a list).           *)
(***************************************************************************)
EXTENDS Integers, Sequences, FiniteSets, TLC

VARIABLES
    data,            \* argument data
    splitters,       \* argument splitters (as passed, before normalisation)
    spaces,          \* argument spaces (as passed, before normalisation)
    ks,              \* argument ks
    ground_truth,    \* argument ground_truth
    n_jobs,          \* argument n_jobs
    cluster_method,  \* state of the caller's cluster_method object
    pc,              \* position of reproducibility()
    err,             \* the exception reproducibility() terminated with
    splitter,        \* product(*splitters), as the list of its elements
    folds,           \* per fold: the frame of its _run_fold call
    results,         \* the list Parallel returns, filled as folds return
    completed,       \* fold indices in the order the workers returned
    scores           \* the dict reproducibility() returns

vars == <<data, splitters, spaces, ks, ground_truth, n_jobs, cluster_method,
          pc, err, splitter, folds, results, completed, scores>>

(***************************************************************************)
(* Bounds of the model.                                                    *)
(***************************************************************************)
NSamples == 4
NFeatures == 2
MaxLen == 2
MaxJobs == 2

(***************************************************************************)
(* Generic helpers for sequences.                                          *)
(***************************************************************************)
RECURSIVE Indices(_, _)
\* the positions of the true entries of mask, ascending, from position i on
Indices(mask, i) ==
    IF i > Len(mask) THEN <<>>
    ELSE IF mask[i] THEN <<i>> \o Indices(mask, i + 1)
    ELSE Indices(mask, i + 1)

RECURSIVE Flatten(_)
\* concatenation of a sequence of sequences
Flatten(ss) == IF ss = <<>> THEN <<>> ELSE Head(ss) \o Flatten(Tail(ss))

Range(s) == {s[i] : i \in DOMAIN s}

(***************************************************************************)
(* Exceptions.  NoErr is "no exception".                                   *)
(***************************************************************************)
NoErr == [kind |-> "", text |-> "", args |-> <<>>]

Raise(kind, text, args) == [kind |-> kind, text |-> text, args |-> args]

(***************************************************************************)
(* str.split('.') : the parts of a token sequence between the "." tokens.  *)
(* 'sa.subjects' -> ['sa', 'subjects'], 'sasubjects' -> ['sasubjects'],    *)
(* 'sa.x.y' -> ['sa', 'x', 'y'].                                           *)
(***************************************************************************)
RECURSIVE SplitFrom(_, _, _, _)
SplitFrom(s, i, cur, acc) ==
    IF i > Len(s) THEN Append(acc, cur)
    ELSE IF s[i] = "." THEN SplitFrom(s, i + 1, "", Append(acc, cur))
    ELSE SplitFrom(s, i + 1, cur \o s[i], acc)

str_split(s) == SplitFrom(s, 1, "", <<>>)

\* line 55 under Python 3: map() is a one-shot iterator, which the loop of
\* lines 56-59 leaves exhausted
spaces_split_exhausted(sp) == <<>>

\* line 55: spaces_split = map(lambda x: x.split('.'), spaces)
spaces_split_of(sp) == [i \in DOMAIN sp |-> str_split(sp[i])]

(***************************************************************************)
(* numpy.                                                                  *)
(***************************************************************************)
\* np.ones(n, dtype=bool)
np_ones(n) == [i \in 1..n |-> TRUE]

\* np.in1d(arr, values): elementwise membership
np_in1d(arr, values) == [i \in DOMAIN arr |-> arr[i] \in values]

\* a &= b on boolean arrays
mask_and(a, b) == [i \in DOMAIN a |-> a[i] /\ b[i]]

\* A 2-d array: its shape and its rows.
Matrix(nrows, ncols, cells) == [nrows |-> nrows, ncols |-> ncols, cells |-> cells]

\* M.T
Transpose(M) ==
    Matrix(M.ncols, M.nrows,
           [j \in 1..M.ncols |-> [i \in 1..M.nrows |-> M.cells[i][j]]])

\* np.vstack((ks, np.zeros(len(ks)))) : row 0 the ks, row 1 zeros
EmptyMatrix == Matrix(0, 0, <<>>)

NoLabel == [src |-> "", calls |-> <<>>, X |-> EmptyMatrix, k |-> 0, values |-> <<>>]

ZeroScore == [metric |-> "", a |-> NoLabel, b |-> NoLabel, data |-> EmptyMatrix, k |-> 0]

np_vstack_ks_zeros(kseq) == << kseq, [i \in DOMAIN kseq |-> ZeroScore] >>

\* np.hstack(tables) of 2-row tables: row by row, the rows one after another
np_hstack(tables) ==
    [r \in 1..2 |-> Flatten([f \in DOMAIN tables |-> tables[f][r]])]

(***************************************************************************)
(* The Dataset (mvpa2.datasets.base.Dataset).  `collections` are the       *)
(* attributes of the object that are collections with keys(): sa, fa, a.   *)
(***************************************************************************)
subjects == [i \in 1..NSamples |-> (((i - 1) \div 2) % 2) + 1]
runs == [i \in 1..NSamples |-> ((i - 1) % 2) + 1]
rois == [j \in 1..NFeatures |-> ((j - 1) % 2) + 1]

TheDataset ==
    [isDataset |-> TRUE,
     nsamples |-> NSamples,
     nfeatures |-> NFeatures,
     samples |-> Matrix(NSamples, NFeatures,
                        [i \in 1..NSamples |-> [j \in 1..NFeatures |-> 10 * i + j]]),
     collections |-> [sa |-> [subjects |-> subjects, runs |-> runs],
                      fa |-> [rois |-> rois],
                      a  |-> [mapper |-> <<0>>]]]

\* an object that is no Dataset (isinstance(data, Dataset) is False)
NotADataset == [TheDataset EXCEPT !.isDataset = FALSE]

Datasets == {TheDataset, NotADataset}

\* data[mask_sa, mask_fa].samples : the rows and columns the masks select
Slice(d, mask_sa, mask_fa) ==
    LET rs == Indices(mask_sa, 1)
        cs == Indices(mask_fa, 1)
    IN  Matrix(Len(rs), Len(cs),
               [i \in 1..Len(rs) |-> [j \in 1..Len(cs) |-> d.samples.cells[rs[i]][cs[j]]]])

(***************************************************************************)
(* The Cluster Method and the Cluster Metric (reprclust.cluster_methods,   *)
(* reprclust.cluster_metrics).  A method is deterministic: what predict    *)
(* returns is a function of the train calls the instance has received and  *)
(* of predict's arguments; nothing more is assumed of it, so a label array *)
(* is the term naming that function's arguments, and a score is the term   *)
(* naming the metric and its arguments.                                    *)
(***************************************************************************)
\* an instance that has received no train call
Untrained == [calls |-> <<>>]

\* cm.train(X, k, compute_full=compute_full)
cm_train_call(cm, X, k, compute_full) ==
    [cm EXCEPT !.calls = Append(@, [X |-> X, k |-> k, compute_full |-> compute_full])]

\* cm.predict(X, k)
cm_predict(cm, X, k) ==
    [src |-> "predict", calls |-> cm.calls, X |-> X, k |-> k, values |-> <<>>]

\* a label array given by the caller (ground_truth)
GivenLabels(values) ==
    [src |-> "given", calls |-> <<>>, X |-> EmptyMatrix, k |-> 0, values |-> values]

\* metric(a, b, data=data, k=k)
metric_call(name, a, b, d, k) == [metric |-> name, a |-> a, b |-> b, data |-> d, k |-> k]

\* str(metric)
metric_str(name) == name

(***************************************************************************)
(* Objects and references.  A frame of _run_fold can reach three Cluster   *)
(* Method objects: "caller", the object the caller of reproducibility()    *)
(* passed; "arg", the object a worker process unpickled for this call; and *)
(* "test", the object copy.deepcopy allocates in this call.                *)
(***************************************************************************)
\* line 89, copy.deepcopy(ref): a reference to a new object, which the
\* caller of this operator initialises with the state of ref's object
deepcopy(ref) == "test"

\* lines 156-163: the object _run_fold's parameter cluster_method is bound to.
\* Parallel(n_jobs=1) calls the function in the calling process, with the
\* caller's object; n_jobs > 1 pickles the arguments for a worker process.
PassedObject(jobs) == IF jobs = 1 THEN "caller" ELSE "arg"

(***************************************************************************)
(* _run_fold, lines 53-97: everything before the loop over ks.             *)
(***************************************************************************)
\* the default of the cluster_metrics parameter: (ARI(), AMI())
cluster_metrics == <<"ARI", "AMI">>

\* lines 58-59 raising the exception kind of the other checks
AnnotationAbsentAsValueError(attr_space, attr) ==
    Raise("ValueError", "is not present in data", <<>>)

\* lines 58-59: raise KeyError('{0} is not present in data.{1}: {2}')
AnnotationAbsent(attr_space, attr) ==
    Raise("KeyError", "is not present in data", <<>>)

RECURSIVE CheckSpaces(_, _, _)
\* lines 56-59: the first exception the loop over spaces_split raises
CheckSpaces(d, ssplit, i) ==
    IF i > Len(ssplit) THEN NoErr
    ELSE IF Len(ssplit[i]) # 2
         THEN Raise("ValueError", "unpack", <<Len(ssplit[i])>>)
    ELSE IF ssplit[i][1] \notin DOMAIN d.collections
         THEN Raise("AttributeError", "getattr", <<>>)
    ELSE IF ssplit[i][2] \notin DOMAIN d.collections[ssplit[i][1]]
         THEN AnnotationAbsent(ssplit[i][2], ssplit[i][1])
    ELSE CheckSpaces(d, ssplit, i + 1)

\* lines 61-64 with np.zeros in place of np.ones
InitialMasksZeros(d) ==
    [sa_train |-> [i \in 1..d.nsamples |-> FALSE],
     sa_test |-> [i \in 1..d.nsamples |-> FALSE],
     fa_train |-> [i \in 1..d.nfeatures |-> FALSE],
     fa_test |-> [i \in 1..d.nfeatures |-> FALSE],
     err |-> NoErr]

\* lines 61-64
InitialMasks(d) ==
    [sa_train |-> np_ones(d.nsamples), sa_test |-> np_ones(d.nsamples),
     fa_train |-> np_ones(d.nfeatures), fa_test |-> np_ones(d.nfeatures),
     err |-> NoErr]

\* lines 68 and 71 testing membership in train (the line above, copied)
TestSetAsTrain(pair) == pair[1]

\* the set the test mask of lines 68 and 71 is computed from
TestSetOf(pair) == pair[2]

\* lines 66-73: one iteration of the loop over zip(split, spaces_split)
MaskStep(d, m, pair, sp) ==
    IF Len(pair) # 2 THEN [m EXCEPT !.err = Raise("ValueError", "unpack", <<Len(pair)>>)]
    ELSE IF sp[1] = "sa" THEN
        [m EXCEPT !.sa_train = mask_and(@, np_in1d(d.collections.sa[sp[2]], pair[1])),
                  !.sa_test = mask_and(@, np_in1d(d.collections.sa[sp[2]], TestSetOf(pair)))]
    ELSE IF sp[1] = "fa" THEN
        [m EXCEPT !.fa_train = mask_and(@, np_in1d(d.collections.fa[sp[2]], pair[1])),
                  !.fa_test = mask_and(@, np_in1d(d.collections.fa[sp[2]], TestSetOf(pair)))]
    ELSE [m EXCEPT !.err = Raise("ValueError", "We should not get here", <<>>)]

RECURSIVE ApplySplits(_, _, _, _, _)
\* line 65: the loop over zip(split, spaces_split), from pair i on
ApplySplits(d, m, split, ssplit, i) ==
    IF i > Len(split) \/ i > Len(ssplit) \/ m.err # NoErr THEN m
    ELSE ApplySplits(d, MaskStep(d, m, split[i], ssplit[i]), split, ssplit, i + 1)

\* lines 78-79: the default fold_fx
fold_fx(data_train, data_test) == <<data_train, data_test>>

\* lines 92-97 with the "_gt" tables allocated whatever ground_truth is
ResultKeysGtAlways(metrics, gt) ==
    {metric_str(metrics[i]) : i \in DOMAIN metrics}
    \cup {metric_str(metrics[i]) \o "_gt" : i \in DOMAIN metrics}

\* lines 92-97: the keys of result_fold
ResultKeys(metrics, gt) ==
    {metric_str(metrics[i]) : i \in DOMAIN metrics}
    \cup (IF gt.given THEN {metric_str(metrics[i]) \o "_gt" : i \in DOMAIN metrics}
          ELSE {})

\* lines 92-97
AllocateResult(metrics, gt, kseq) ==
    [key \in ResultKeys(metrics, gt) |-> np_vstack_ks_zeros(kseq)]

(***************************************************************************)
(* The frame of one _run_fold call.                                        *)
(***************************************************************************)
PendingFrame ==
    [pc |-> "pending", err |-> NoErr, i_k |-> 0,
     mask_sa_train |-> <<>>, mask_sa_test |-> <<>>,
     mask_fa_train |-> <<>>, mask_fa_test |-> <<>>,
     samples_train |-> EmptyMatrix, samples_test |-> EmptyMatrix,
     cm_train |-> "", cm_test |-> "",
     objs |-> [arg |-> Untrained, test |-> Untrained],
     result_fold |-> <<>>]

RaisedFrame(e) == [PendingFrame EXCEPT !.pc = "raised", !.err = e]

\* the objects frame f can reach, with `caller` the state of the caller's object
Heap(f, caller) == [caller |-> caller, arg |-> f.objs.arg, test |-> f.objs.test]

\* lines 53-97 of _run_fold(data, split, cluster_method, ks, ...) where the
\* parameter cluster_method is bound to the object `passed`
RunFoldSetup(d, split, sp, kseq, gt, passed, caller) ==
    IF ~d.isDataset
    THEN RaisedFrame(Raise("TypeError", "Input must be a PyMVPA Dataset", <<>>))
    ELSE
    LET ssplit == spaces_split_of(sp)
        e == CheckSpaces(d, ssplit, 1)
    IN  IF e # NoErr THEN RaisedFrame(e)
        ELSE
        LET m == ApplySplits(d, InitialMasks(d), split, ssplit, 1)
        IN  IF m.err # NoErr THEN RaisedFrame(m.err)
            ELSE
            LET data_train == Slice(d, m.sa_train, m.fa_train)
                data_test == Slice(d, m.sa_test, m.fa_test)
                fx == fold_fx(data_train, data_test)
                h == [caller |-> caller, arg |-> caller, test |-> Untrained]
                cm_train == passed
                cm_test == deepcopy(cm_train)
            IN  [pc |-> "sweep", err |-> NoErr, i_k |-> 0,
                 mask_sa_train |-> m.sa_train, mask_sa_test |-> m.sa_test,
                 mask_fa_train |-> m.fa_train, mask_fa_test |-> m.fa_test,
                 samples_train |-> Transpose(fx[1]),
                 samples_test |-> Transpose(fx[2]),
                 cm_train |-> cm_train, cm_test |-> cm_test,
                 objs |-> [arg |-> h.arg,
                           test |-> IF cm_test = "test" THEN h[cm_train] ELSE h.test],
                 result_fold |-> AllocateResult(cluster_metrics, gt, kseq)]

(***************************************************************************)
(* _run_fold, lines 99-116: one iteration of the loop over ks.             *)
(***************************************************************************)
\* line 116 scoring against the test instance's labels instead
gt_reference_self(c) == c.test_label

\* line 116: the labels predicted_label is scored against under the "_gt" key
gt_reference(c) == GivenLabels(c.gt.values)

RECURSIVE StoreScores(_, _, _)
\* lines 111-116: the loop over cluster_metrics, from metric i on;
\* c holds the iteration's i_k (as a column), k and labels
StoreScores(rf, c, i) ==
    IF i > Len(cluster_metrics) THEN rf
    ELSE
    LET metric == cluster_metrics[i]
        rf1 == [rf EXCEPT ![metric_str(metric)][2][c.col] =
                    metric_call(metric, c.predicted_label, c.test_label,
                                c.samples_test, c.k)]
        rf2 == IF c.gt.given
               THEN [rf1 EXCEPT ![metric_str(metric) \o "_gt"][2][c.col] =
                        metric_call(metric, c.predicted_label,
                                    gt_reference(c), c.samples_test, c.k)]
               ELSE rf1
    IN  StoreScores(rf2, c, i + 1)

\* lines 99-116 with line 104 training the second instance on samples_train
RunRoundTestOnTrain(f, caller, kseq, gt) ==
    LET k == kseq[f.i_k + 1]
        h0 == Heap(f, caller)
        h1 == [h0 EXCEPT ![f.cm_train] = cm_train_call(@, f.samples_train, k, TRUE)]
        h2 == [h1 EXCEPT ![f.cm_test] = cm_train_call(@, f.samples_train, k, TRUE)]
        c == [col |-> f.i_k + 1, k |-> k, gt |-> gt,
              samples_test |-> f.samples_test,
              predicted_label |-> cm_predict(h2[f.cm_train], f.samples_test, k),
              test_label |-> cm_predict(h2[f.cm_test], f.samples_test, k)]
    IN  [frame |-> [f EXCEPT !.i_k = @ + 1,
                             !.objs = [arg |-> h2.arg, test |-> h2.test],
                             !.result_fold = StoreScores(@, c, 1)],
         caller |-> h2.caller]

\* lines 99-116 for the next k of frame f: the new frame and the new state
\* of the caller's object
RunRound(f, caller, kseq, gt) ==
    LET k == kseq[f.i_k + 1]
        h0 == Heap(f, caller)
        h1 == [h0 EXCEPT ![f.cm_train] = cm_train_call(@, f.samples_train, k, TRUE)]
        h2 == [h1 EXCEPT ![f.cm_test] = cm_train_call(@, f.samples_test, k, TRUE)]
        c == [col |-> f.i_k + 1, k |-> k, gt |-> gt,
              samples_test |-> f.samples_test,
              predicted_label |-> cm_predict(h2[f.cm_train], f.samples_test, k),
              test_label |-> cm_predict(h2[f.cm_test], f.samples_test, k)]
    IN  [frame |-> [f EXCEPT !.i_k = @ + 1,
                             !.objs = [arg |-> h2.arg, test |-> h2.test],
                             !.result_fold = StoreScores(@, c, 1)],
         caller |-> h2.caller]

(***************************************************************************)
(* The arguments a call of reproducibility() is made with.                 *)
(***************************************************************************)
\* A splitter is the sequence of the items it yields; an item is a
\* (train, test) pair of label sets.
LeaveOneOut == << <<{1}, {2}>>, <<{2}, {1}>> >>
SingleSplit == << <<{1}, {2}>> >>
Overlapping == << <<{1, 2}, {2}>> >>
NoSplit == << >>
\* a splitter whose second item is no pair
Malformed == << <<{1}, {2}>>, <<{2}, {1}, {1}>> >>

SplitterPool == {LeaveOneOut, SingleSplit, Overlapping, NoSplit, Malformed}

NotAList(x) == [isList |-> FALSE, obj |-> x, items |-> <<>>]
AList(xs) == [isList |-> TRUE, obj |-> <<>>, items |-> xs]

SplittersArgs ==
    {NotAList(x) : x \in SplitterPool}
    \cup {AList(<<x>>) : x \in SplitterPool}
    \cup {AList(<<x, y>>) : x \in SplitterPool \ {Overlapping}, y \in {LeaveOneOut, SingleSplit}}

\* A space is a str, as the sequence of its tokens.
SaSubjects == <<"sa", ".", "subjects">>
SaRuns == <<"sa", ".", "runs">>
FaRois == <<"fa", ".", "rois">>
SaMissing == <<"sa", ".", "missing">>
AMapper == <<"a", ".", "mapper">>
XxSubjects == <<"xx", ".", "subjects">>
NoDot == <<"sa", "subjects">>

SpacesArgs ==
    {NotAList(SaSubjects)}
    \cup {AList(<<x>>) : x \in {SaSubjects, FaRois, SaMissing, AMapper, XxSubjects, NoDot}}
    \cup {AList(<<SaSubjects, y>>) : y \in {SaRuns, FaRois, XxSubjects, SaMissing}}

KValues == {2, 3}

KSweeps == UNION {[1..n -> KValues] : n \in 0..MaxLen}

KsArgs ==
    {[type |-> t, val |-> v] : t \in {"list", "ndarray"}, v \in KSweeps}
    \cup {[type |-> "tuple", val |-> <<2, 3>>], [type |-> "int", val |-> <<>>]}

GroundTruths ==
    {[given |-> FALSE, values |-> <<>>],
     [given |-> TRUE, values |-> [j \in 1..NFeatures |-> (j % 2) + 1]]}

NJobs == 1..MaxJobs

(***************************************************************************)
(* reproducibility(), lines 144-170.                                       *)
(***************************************************************************)
\* lines 146-149: x if it is a list, else [x]
AsList(x) == IF x.isList THEN x.items ELSE <<x.obj>>

\* line 152 as it was meant: the ValueError naming the two counts
CountMismatchMeant(nsplitters, nspaces) ==
    Raise("ValueError", "Got {0} splitters and {1} spaces", <<nsplitters, nspaces>>)

\* line 152: len(splitters, len(spaces)) is a call of len with two
\* arguments, which raises TypeError while the message is being built
CountMismatch(nsplitters, nspaces) ==
    Raise("TypeError", "len() takes exactly one argument (2 given)", <<>>)

\* line 144 accepting every sequence type
KsAcceptedAnySequence(k) == k.type \in {"list", "ndarray", "tuple"}

\* line 144: isinstance(ks, (list, np.ndarray))
KsAccepted(k) == k.type \in {"list", "ndarray"}

\* line 145: raise ValueError('ks must be a list or numpy array')
KsRejected == Raise("ValueError", "ks must be a list or numpy array", <<>>)

RECURSIVE ProductFirstFastest(_)
\* the product enumerated with the first splitter varying fastest
ProductFirstFastest(ss) ==
    IF ss = <<>> THEN << <<>> >>
    ELSE LET rest == ProductFirstFastest(Tail(ss))
         IN  Flatten([r \in DOMAIN rest |->
                        [i \in DOMAIN Head(ss) |-> <<Head(ss)[i]>> \o rest[r]]])

RECURSIVE Product(_)
\* line 154, itertools.product(*ss): the last splitter varies fastest
Product(ss) ==
    IF ss = <<>> THEN << <<>> >>
    ELSE LET rest == Product(Tail(ss))
         IN  Flatten([i \in DOMAIN Head(ss) |->
                        [r \in DOMAIN rest |-> <<Head(ss)[i]>> \o rest[r]]])

\* a slot of the list Parallel returns
NotReady == [ready |-> FALSE, value |-> <<>>]

\* results in the order the workers return
SlotByCompletion(j, done) == Len(done) + 1

\* lines 158-163: Parallel returns the results in the order the calls were
\* submitted, so fold j's result is element j of `results`
ResultSlot(j, done) == j

\* line 168 with the first fold left out
hstack_skip_first(tables) == np_hstack(Tail(tables))

\* line 168: np.hstack((res[metric] for res in results))
hstack_results(tables) == np_hstack(tables)

Init ==
    /\ data \in Datasets
    /\ splitters \in SplittersArgs
    /\ spaces \in SpacesArgs
    /\ ks \in KsArgs
    /\ ground_truth \in GroundTruths
    /\ n_jobs \in NJobs
    /\ cluster_method = Untrained
    /\ pc = "start"
    /\ err = NoErr
    /\ splitter = <<>>
    /\ folds = <<>>
    /\ results = <<>>
    /\ completed = <<>>
    /\ scores = <<>>

args == <<data, splitters, spaces, ks, ground_truth, n_jobs>>

\* lines 144-154: validation, normalisation and the product of the splitters
Validate ==
    /\ pc = "start"
    /\ IF ~KsAccepted(ks)
       THEN /\ pc' = "error"
            /\ err' = KsRejected
            /\ UNCHANGED <<splitter, folds, results>>
       ELSE IF Len(AsList(splitters)) # Len(AsList(spaces))
       THEN /\ pc' = "error"
            /\ err' = CountMismatch(Len(AsList(splitters)), Len(AsList(spaces)))
            /\ UNCHANGED <<splitter, folds, results>>
       ELSE /\ pc' = "dispatch"
            /\ splitter' = Product(AsList(splitters))
            /\ folds' = [j \in 1..Len(splitter') |-> PendingFrame]
            /\ results' = [j \in 1..Len(splitter') |-> NotReady]
            /\ UNCHANGED err
    /\ UNCHANGED <<args, cluster_method, completed, scores>>

Running == {j \in DOMAIN folds : folds[j].pc = "sweep"}
Raised == {j \in DOMAIN folds : folds[j].pc = "raised"}

\* lines 158-163: Parallel calls _run_fold for the next element of the
\* product; the step runs lines 53-97 of that call
Dispatch(j) ==
    /\ pc = "dispatch"
    /\ folds[j].pc = "pending"
    /\ \A i \in 1..(j - 1) : folds[i].pc # "pending"
    /\ Cardinality(Running) < n_jobs
    /\ n_jobs = 1 => Raised = {}
    /\ folds' = [folds EXCEPT ![j] =
                    RunFoldSetup(data, splitter[j], AsList(spaces), ks.val,
                                 ground_truth, PassedObject(n_jobs), cluster_method)]
    /\ UNCHANGED <<args, cluster_method, pc, err, splitter, results, completed, scores>>

\* lines 99-116: one iteration of fold j's loop over ks
Round(j) ==
    /\ pc = "dispatch"
    /\ folds[j].pc = "sweep"
    /\ folds[j].i_k < Len(ks.val)
    /\ LET r == RunRound(folds[j], cluster_method, ks.val, ground_truth)
       IN  /\ folds' = [folds EXCEPT ![j] = r.frame]
           /\ cluster_method' = r.caller
    /\ UNCHANGED <<args, pc, err, splitter, results, completed, scores>>

\* line 117: fold j returns result_fold, which Parallel puts into `results`
Return(j) ==
    /\ pc = "dispatch"
    /\ folds[j].pc = "sweep"
    /\ folds[j].i_k = Len(ks.val)
    /\ folds' = [folds EXCEPT ![j].pc = "returned"]
    /\ results' = [results EXCEPT ![ResultSlot(j, completed)] =
                      [ready |-> TRUE, value |-> folds[j].result_fold]]
    /\ completed' = Append(completed, j)
    /\ UNCHANGED <<args, cluster_method, pc, err, splitter, scores>>

\* lines 158-163: the exception of a fold leaves Parallel's call
Abort(j) ==
    /\ pc = "dispatch"
    /\ folds[j].pc = "raised"
    /\ pc' = "error"
    /\ err' = folds[j].err
    /\ UNCHANGED <<args, cluster_method, splitter, folds, results, completed, scores>>

\* a join that also ends when folds have raised (their results left out)
AllFinished == \A j \in DOMAIN folds : folds[j].pc \in {"returned", "raised"}

\* lines 158-163: Parallel's call returns when every _run_fold call has returned
AllReturned == \A j \in DOMAIN folds : folds[j].pc = "returned"

\* line 167 looping over nothing when there is no result, so that line 170
\* returns the empty dict
FirstOfNoResultsSkipped == [pc |-> "done", err |-> NoErr]

\* line 167: results[0] of an empty list raises IndexError
FirstOfNoResults ==
    [pc |-> "error", err |-> Raise("IndexError", "list index out of range", <<>>)]

\* lines 165-170: the tables are concatenated, metric by metric
Aggregate ==
    /\ pc = "dispatch"
    /\ AllReturned
    /\ IF Len(results) = 0
       THEN /\ pc' = FirstOfNoResults.pc
            /\ err' = FirstOfNoResults.err
            /\ UNCHANGED scores
       ELSE IF \E metric \in DOMAIN results[1].value, j \in DOMAIN results :
                  metric \notin DOMAIN results[j].value
       THEN /\ pc' = "error"
            /\ err' = Raise("KeyError", "res[metric]", <<>>)
            /\ UNCHANGED scores
       ELSE /\ pc' = "done"
            /\ scores' = [metric \in DOMAIN results[1].value |->
                            hstack_results([j \in DOMAIN results |-> results[j].value[metric]])]
            /\ UNCHANGED err
    /\ UNCHANGED <<args, cluster_method, splitter, folds, results, completed>>

Next ==
    \/ Validate
    \/ \E j \in DOMAIN folds : Dispatch(j)
    \/ \E j \in DOMAIN folds : Round(j)
    \/ \E j \in DOMAIN folds : Return(j)
    \/ \E j \in DOMAIN folds : Abort(j)
    \/ Aggregate

Spec == Init /\ [][Next]_vars

(***************************************************************************)
(* Properties.                                                             *)
(***************************************************************************)
NFolds == Len(folds)
NKs == Len(ks.val)

\* the call got past the check of ks and the two counts differ
CountsDiffer == KsAccepted(ks) /\ Len(AsList(splitters)) # Len(AsList(spaces))

\* C1: a call whose number of splitters differs from its number of spaces
\* ends with the ValueError that names the two counts, and no splitter has
\* been iterated and no fold dispatched.
C1_CountMismatchIsValueError ==
    (CountsDiffer /\ pc # "start") =>
        /\ pc = "error"
        /\ err = CountMismatchMeant(Len(AsList(splitters)), Len(AsList(spaces)))
        /\ splitter = <<>>
        /\ folds = <<>>

\* C2: in the dict a successful call returns, columns (j-1)*m+1 .. j*m of
\* every metric's table are the table fold j returned (j counted from 1 in
\* the order of the product), whatever the order the folds returned in.
C2_ColumnsInEnumerationOrder ==
    pc = "done" =>
        /\ DOMAIN scores = DOMAIN folds[1].result_fold
        /\ \A key \in DOMAIN scores : \A j \in DOMAIN folds :
             \A i \in 1..NKs : \A r \in 1..2 :
                scores[key][r][(j - 1) * NKs + i] = folds[j].result_fold[key][r][i]

\* two folds of a successful parallel call returned in the reverse of their
\* enumeration order, and their tables differ
C2_Witness ==
    /\ pc = "done"
    /\ n_jobs > 1
    /\ NKs >= 1
    /\ \E a, b \in DOMAIN completed :
          /\ a < b
          /\ completed[a] > completed[b]
          /\ folds[completed[a]].result_fold # folds[completed[b]].result_fold

\* the folds whose _run_fold call got past line 97
SetUp == {j \in DOMAIN folds : folds[j].pc \in {"sweep", "returned"}}

\* C3: at the start of every fold both Cluster Method instances are
\* untrained and are two objects, and the caller's cluster_method object is
\* never left trained, under sequential as under parallel dispatch.
C3_FreshPairPerFold ==
    /\ cluster_method = Untrained
    /\ \A j \in DOMAIN folds :
          (folds[j].pc = "sweep" /\ folds[j].i_k = 0) =>
              /\ folds[j].cm_train # folds[j].cm_test
              /\ Heap(folds[j], cluster_method)[folds[j].cm_train] = Untrained
              /\ Heap(folds[j], cluster_method)[folds[j].cm_test] = Untrained

RECURSIVE Sweep(_)
\* the frame after the whole loop over ks, for a frame that owns its objects
Sweep(f) ==
    IF f.pc # "sweep" \/ f.i_k = NKs THEN f
    ELSE Sweep(RunRound(f, Untrained, ks.val, ground_truth).frame)

\* what _run_fold returns for fold j when it works on its own copy of the
\* (untrained) cluster method
FoldOnOwnCopy(j) ==
    Sweep(RunFoldSetup(data, splitter[j], AsList(spaces), ks.val, ground_truth,
                       "arg", Untrained)).result_fold

\* the tables of a dispatch in which every fold works on its own copy
ScoresOnOwnCopies ==
    [key \in DOMAIN FoldOnOwnCopy(1) |->
        np_hstack([j \in DOMAIN folds |-> FoldOnOwnCopy(j)[key]])]

\* C4: the tables a sequential call (n_jobs = 1) returns are those of a
\* parallel dispatch of the same call in which every fold works on its own
\* copy of the cluster method.
C4_SequentialEqualsParallel ==
    (pc = "done" /\ n_jobs = 1) => scores = ScoresOnOwnCopies

\* the parallel dispatch of the model returns the tables of ScoresOnOwnCopies
ParallelIsOwnCopies ==
    (pc = "done" /\ n_jobs > 1) => scores = ScoresOnOwnCopies

\* C5: every table of a successful call has 2 rows and m*n columns, and its
\* row 0 is the k-sweep, in the configured order, repeated n times.
C5_ShapeAndTiledKs ==
    pc = "done" =>
        \A key \in DOMAIN scores :
            /\ Len(scores[key]) = 2
            /\ Len(scores[key][1]) = NKs * NFolds
            /\ Len(scores[key][2]) = NKs * NFolds
            /\ \A c \in 1..(NKs * NFolds) :
                  scores[key][1][c] = ks.val[((c - 1) % NKs) + 1]

\* a successful call of several folds over a sweep of two different k
C5_Witness ==
    /\ pc = "done"
    /\ NFolds >= 2
    /\ NKs >= 2
    /\ ks.val[1] # ks.val[2]
    /\ scores # <<>>

\* C6: once a fold has raised, the call never returns a result: it ends
\* with the exception of a fold that raised, and that fold is not run again.
C6_FoldErrorAbortsCall ==
    Raised # {} =>
        /\ pc # "done"
        /\ scores = <<>>
        /\ pc = "error" => \E j \in Raised : err = folds[j].err
        /\ pc # "error" => ENABLED (\E j \in DOMAIN folds : Abort(j))
        /\ ~ ENABLED (\E j \in Raised : Dispatch(j) \/ Round(j) \/ Return(j))
        /\ ~ ENABLED Aggregate

\* a call that ended with a fold's exception after another fold had returned
C6_Witness ==
    /\ pc = "error"
    /\ Raised # {}
    /\ \E j \in DOMAIN folds : folds[j].pc = "returned"

\* A space 'axis.name', read off its tokens.
WellFormed(sp) == Len(sp) = 3 /\ sp[2] = "." /\ sp[1] # "." /\ sp[3] # "."
AxisOf(sp) == sp[1]
NameOf(sp) == sp[3]

\* position p of axis `axis` satisfies every space configured on that axis,
\* for the label sets at position `which` (1 train, 2 test) of fold j's pairs
InAllSpaces(j, axis, p, which) ==
    \A i \in DOMAIN AsList(spaces) :
        AxisOf(AsList(spaces)[i]) = axis =>
            data.collections[axis][NameOf(AsList(spaces)[i])][p] \in splitter[j][i][which]

\* C7: on each axis, the train mask is true at a position iff the
\* position's annotation value is in the train set of every space configured
\* on that axis; likewise the test mask with the test sets.
C7_MasksAreConjunctions ==
    \A j \in SetUp :
        /\ DOMAIN folds[j].mask_sa_train = 1..data.nsamples
        /\ DOMAIN folds[j].mask_sa_test = 1..data.nsamples
        /\ DOMAIN folds[j].mask_fa_train = 1..data.nfeatures
        /\ DOMAIN folds[j].mask_fa_test = 1..data.nfeatures
        /\ \A p \in 1..data.nsamples :
              /\ folds[j].mask_sa_train[p] <=> InAllSpaces(j, "sa", p, 1)
              /\ folds[j].mask_sa_test[p] <=> InAllSpaces(j, "sa", p, 2)
        /\ \A p \in 1..data.nfeatures :
              /\ folds[j].mask_fa_train[p] <=> InAllSpaces(j, "fa", p, 1)
              /\ folds[j].mask_fa_test[p] <=> InAllSpaces(j, "fa", p, 2)

\* a fold with two spaces on the unit axis whose train mask is narrower than
\* what either space alone selects
C7_Witness ==
    \E j \in SetUp :
        /\ AsList(spaces) = <<SaSubjects, SaRuns>>
        /\ \E p, q, r \in 1..data.nsamples :
              /\ folds[j].mask_sa_train[p]
              /\ ~folds[j].mask_sa_train[q] /\ subjects[q] \in splitter[j][1][1]
              /\ ~folds[j].mask_sa_train[r] /\ runs[r] \in splitter[j][2][1]

\* the train and the test mask of fold j on axis `axis` share no position
MasksDisjoint(j, axis) ==
    IF axis = "sa"
    THEN \A p \in 1..data.nsamples :
            ~(folds[j].mask_sa_train[p] /\ folds[j].mask_sa_test[p])
    ELSE \A p \in 1..data.nfeatures :
            ~(folds[j].mask_fa_train[p] /\ folds[j].mask_fa_test[p])

\* C8: if the train and the test label set of a space are disjoint, the
\* train and the test mask of that space's axis are disjoint, whatever the
\* other spaces.
C8_DisjointSetsDisjointMasks ==
    \A j \in SetUp : \A i \in DOMAIN AsList(spaces) :
        splitter[j][i][1] \cap splitter[j][i][2] = {} =>
            MasksDisjoint(j, AxisOf(AsList(spaces)[i]))

\* a fold of two spaces with disjoint label sets whose unit-axis masks each
\* select something
C8_Witness ==
    \E j \in SetUp :
        /\ Len(AsList(spaces)) = 2
        /\ splitter[j][1][1] \cap splitter[j][1][2] = {}
        /\ AxisOf(AsList(spaces)[1]) = "sa"
        /\ \E p, q \in 1..data.nsamples :
              folds[j].mask_sa_train[p] /\ folds[j].mask_sa_test[q]

MetricNames == {"ARI", "AMI"}
GtNames == {"ARI_gt", "AMI_gt"}

\* C9: with a ground truth, every fold's result and the aggregated result
\* have the keys identity and identity_gt of every metric, the _gt column of
\* a k holding the metric's score of the training instance's prediction
\* against the ground truth; without one, no _gt key exists.
C9_GroundTruthKeys ==
    /\ \A j \in SetUp :
          /\ DOMAIN folds[j].result_fold =
                (IF ground_truth.given THEN MetricNames \cup GtNames ELSE MetricNames)
          /\ ground_truth.given =>
                \A name \in MetricNames : \A col \in 1..folds[j].i_k :
                    LET cell == folds[j].result_fold[name \o "_gt"][2][col]
                    IN  /\ cell.metric = name
                        /\ cell.k = ks.val[col]
                        /\ cell.data = folds[j].samples_test
                        /\ cell.b.src = "given"
                        /\ cell.b.values = ground_truth.values
                        /\ cell.a = folds[j].result_fold[name][2][col].a
                        /\ cell.a.src = "predict"
                        /\ cell.a.X = folds[j].samples_test
                        /\ cell.a.calls[Len(cell.a.calls)] =
                              [X |-> folds[j].samples_train, k |-> ks.val[col],
                               compute_full |-> TRUE]
    /\ pc = "done" =>
          DOMAIN scores =
              (IF ground_truth.given THEN MetricNames \cup GtNames ELSE MetricNames)

\* a successful call with a ground truth whose folds swept two k
C9_Witness ==
    /\ pc = "done"
    /\ ground_truth.given
    /\ NKs >= 2
    /\ NFolds >= 2

\* C10: a fold of a call one of whose spaces has an axis-kind other than
\* 'sa' and 'fa' raises the ValueError 'We should not get here', and no
\* other exception.
C10_UnknownAxisRaisesUnreachable ==
    \A j \in DOMAIN folds :
        ( /\ folds[j].pc # "pending"
          /\ data.isDataset
          /\ \A i \in DOMAIN AsList(spaces) : WellFormed(AsList(spaces)[i])
          /\ \A i \in DOMAIN splitter[j] : Len(splitter[j][i]) = 2
          /\ \E i \in DOMAIN AsList(spaces) : AxisOf(AsList(spaces)[i]) \notin {"sa", "fa"} )
        => /\ folds[j].pc = "raised"
           /\ folds[j].err = Raise("ValueError", "We should not get here", <<>>)

\* every space is 'sa.name' or 'fa.name'
OnKnownAxes ==
    \A i \in DOMAIN AsList(spaces) :
        WellFormed(AsList(spaces)[i]) /\ AxisOf(AsList(spaces)[i]) \in {"sa", "fa"}

\* some space names an annotation its namespace of the dataset does not hold
SomeAnnotationAbsent ==
    \E i \in DOMAIN AsList(spaces) :
        NameOf(AsList(spaces)[i]) \notin
            DOMAIN data.collections[AxisOf(AsList(spaces)[i])]

\* C11: when a space names an annotation absent from data.sa or data.fa,
\* every fold that is run raises KeyError before line 61: it has no mask, no
\* result table, and no Cluster Method instance has received a train call.
C11_AbsentAnnotationIsKeyError ==
    (data.isDataset /\ OnKnownAxes /\ SomeAnnotationAbsent) =>
        /\ cluster_method = Untrained
        /\ \A j \in DOMAIN folds :
              folds[j].pc # "pending" =>
                  /\ folds[j].pc = "raised"
                  /\ folds[j].err.kind = "KeyError"
                  /\ folds[j].mask_sa_train = <<>>
                  /\ folds[j].mask_sa_test = <<>>
                  /\ folds[j].mask_fa_train = <<>>
                  /\ folds[j].mask_fa_test = <<>>
                  /\ folds[j].objs = [arg |-> Untrained, test |-> Untrained]
                  /\ folds[j].result_fold = <<>>
        /\ pc = "error" /\ folds # <<>> => err.kind = "KeyError"

\* a call whose second space names an absent annotation ended with the
\* KeyError of its fold
C11_Witness ==
    /\ data.isDataset
    /\ AsList(spaces) = <<SaSubjects, SaMissing>>
    /\ pc = "error"
    /\ Raised # {}
    /\ err.kind = "KeyError"

\* the call got past lines 144-152
Validated ==
    /\ pc # "start"
    /\ KsAccepted(ks)
    /\ Len(AsList(splitters)) = Len(AsList(spaces))

RECURSIVE CountFrom(_, _)
\* c_i * ... * c_s, the number of combinations of splitters i..s of ss
CountFrom(ss, i) == IF i > Len(ss) THEN 1 ELSE Len(ss[i]) * CountFrom(ss, i + 1)

\* the position in splitter i of the pair that fold j (from 1) carries for
\* space i, in the order of itertools.product
PairIndex(ss, j, i) == (((j - 1) \div CountFrom(ss, i + 1)) % Len(ss[i])) + 1

\* C12: the folds are the elements of the Cartesian product of the
\* splitters in product order: c_1*...*c_s of them, fold j carrying for the
\* i-th space the pair of the i-th splitter that product order gives it;
\* the masks of a fold use the i-th pair for the i-th space; no fold returns
\* twice and a successful call has run every fold.
C12_FoldsAreTheProduct ==
    Validated =>
        /\ NFolds = CountFrom(AsList(splitters), 1)
        /\ Len(splitter) = NFolds
        /\ \A j \in DOMAIN splitter :
              /\ Len(splitter[j]) = Len(AsList(spaces))
              /\ \A i \in DOMAIN splitter[j] :
                    splitter[j][i] =
                        AsList(splitters)[i][PairIndex(AsList(splitters), j, i)]
        /\ \A j \in SetUp : \A i \in DOMAIN AsList(spaces) :
              /\ AxisOf(AsList(spaces)[i]) = "sa" =>
                    \A p \in 1..data.nsamples :
                        /\ folds[j].mask_sa_train[p] =>
                              data.collections.sa[NameOf(AsList(spaces)[i])][p]
                                  \in splitter[j][i][1]
                        /\ folds[j].mask_sa_test[p] =>
                              data.collections.sa[NameOf(AsList(spaces)[i])][p]
                                  \in splitter[j][i][2]
              /\ AxisOf(AsList(spaces)[i]) = "fa" =>
                    \A p \in 1..data.nfeatures :
                        /\ folds[j].mask_fa_train[p] =>
                              data.collections.fa[NameOf(AsList(spaces)[i])][p]
                                  \in splitter[j][i][1]
                        /\ folds[j].mask_fa_test[p] =>
                              data.collections.fa[NameOf(AsList(spaces)[i])][p]
                                  \in splitter[j][i][2]
        /\ \A a, b \in DOMAIN completed : a # b => completed[a] # completed[b]
        /\ Range(completed) = {j \in DOMAIN folds : folds[j].pc = "returned"}
        /\ pc = "done" => Range(completed) = 1..NFolds

\* a successful call over the product of two splitters of two pairs each
C12_Witness ==
    /\ pc = "done"
    /\ Len(AsList(splitters)) = 2
    /\ NFolds = 4
    /\ splitter[2] # splitter[3]

\* the call ended at line 145, before any splitter was iterated or any fold
\* dispatched
RejectedForKs ==
    /\ pc = "error"
    /\ err = KsRejected
    /\ splitter = <<>>
    /\ folds = <<>>

\* C13 as claimed: a ks that is no sequence type is rejected at line 145 with
\* the ValueError, before anything else, and a ks that is a sequence type
\* (list, array, tuple) is not.
C13_SequenceTypesPass ==
    pc # "start" =>
        (RejectedForKs <=> ks.type \notin {"list", "ndarray", "tuple"})

\* C13 as amended: a ks that is neither a list nor a numpy array -- a tuple
\* included -- is rejected at line 145 with the ValueError, before any
\* splitter is iterated or any fold dispatched, and a list or a numpy array
\* is not.
C13_ListOrArrayPass ==
    pc # "start" =>
        (RejectedForKs <=> ks.type \notin {"list", "ndarray"})

\* a call with a tuple as ks was rejected, its counts of splitters and
\* spaces differing as well
C13_Witness ==
    /\ RejectedForKs
    /\ ks.type = "tuple"
    /\ Len(AsList(splitters)) # Len(AsList(spaces))

\* the train call instance `label` had received, c-th of the `col` calls of
\* this fold's sweep up to the prediction `label`
SweepCall(label, col, c) == label.calls[Len(label.calls) - col + c]

\* C14: in a fold, after i_k iterations exactly the columns 1..i_k of every
\* metric's table are written, column i for the i-th k as configured: row 0
\* holds k and row 1 the metric's score, on the test matrix and with k, of
\* instance 1's prediction against instance 2's, both predictions made on
\* the test matrix with k after the instance's train call for k; instance 1
\* has been trained on the transposed training matrix and instance 2 on the
\* transposed test matrix, once for each k so far, in the order of ks, with
\* compute_full.  The columns after i_k are still zero.
C14_SweepInOrder ==
    \A j \in SetUp :
        /\ folds[j].i_k \in 0..NKs
        /\ folds[j].samples_train =
              Transpose(Slice(data, folds[j].mask_sa_train, folds[j].mask_fa_train))
        /\ folds[j].samples_test =
              Transpose(Slice(data, folds[j].mask_sa_test, folds[j].mask_fa_test))
        /\ \A name \in MetricNames : \A col \in 1..NKs :
              LET cell == folds[j].result_fold[name][2][col]
              IN  /\ folds[j].result_fold[name][1][col] = ks.val[col]
                  /\ col > folds[j].i_k => cell = ZeroScore
                  /\ col <= folds[j].i_k =>
                        /\ cell.metric = name
                        /\ cell.k = ks.val[col]
                        /\ cell.data = folds[j].samples_test
                        /\ cell.a.src = "predict" /\ cell.b.src = "predict"
                        /\ cell.a.X = folds[j].samples_test
                        /\ cell.b.X = folds[j].samples_test
                        /\ cell.a.k = ks.val[col] /\ cell.b.k = ks.val[col]
                        /\ Len(cell.a.calls) >= col /\ Len(cell.b.calls) >= col
                        /\ \A c \in 1..col :
                              /\ SweepCall(cell.a, col, c) =
                                    [X |-> folds[j].samples_train, k |-> ks.val[c],
                                     compute_full |-> TRUE]
                              /\ SweepCall(cell.b, col, c) =
                                    [X |-> folds[j].samples_test, k |-> ks.val[c],
                                     compute_full |-> TRUE]

\* a fold half way through a descending sweep of two k, its training and
\* test matrices differing
C14_Witness ==
    \E j \in SetUp :
        /\ ks.val = <<3, 2>>
        /\ folds[j].i_k = 1
        /\ folds[j].samples_train # folds[j].samples_test
        /\ \E i \in SetUp : i # j /\ folds[i].i_k = 2

\* the keys a call with these arguments is to produce
ExpectedKeys == IF ground_truth.given THEN MetricNames \cup GtNames ELSE MetricNames

\* C15: all folds of a call produce the same keys (one per metric, plus the
\* "_gt" ones exactly when a ground truth is given), every result handed to
\* the aggregation has them, the aggregated dict has exactly them, and the
\* aggregation never fails on a key a fold lacks.
C15_SameKeysInEveryFold ==
    /\ \A i, j \in SetUp : DOMAIN folds[i].result_fold = DOMAIN folds[j].result_fold
    /\ \A j \in SetUp : DOMAIN folds[j].result_fold = ExpectedKeys
    /\ \A j \in DOMAIN results : results[j].ready => DOMAIN results[j].value = ExpectedKeys
    /\ pc = "done" => DOMAIN scores = ExpectedKeys
    /\ ~(pc = "error" /\ AllReturned /\ NFolds > 0)

\* a successful call of several folds without a ground truth
C15_Witness ==
    /\ pc = "done"
    /\ NFolds >= 2
    /\ ~ground_truth.given
    /\ DOMAIN scores = {"ARI", "AMI"}

\* the call got past validation and one of its splitters yields nothing
EmptyEnumeration ==
    /\ Validated
    /\ \E i \in DOMAIN AsList(splitters) : Len(AsList(splitters)[i]) = 0

\* C16: when a splitter yields no pair there is no fold, and the call does
\* not return: with nothing dispatched the aggregation step is what comes
\* next, and it ends the call with the IndexError of results[0].
C16_NoFoldsIsAnError ==
    EmptyEnumeration =>
        /\ NFolds = 0
        /\ results = <<>>
        /\ scores = <<>>
        /\ pc \in {"dispatch", "error"}
        /\ pc = "dispatch" => ENABLED Aggregate
        /\ pc = "error" => err.kind = "IndexError"

\* a call of two splitters, one of them yielding nothing, ended with the
\* IndexError
C16_Witness ==
    /\ EmptyEnumeration
    /\ \E i \in DOMAIN AsList(splitters) : Len(AsList(splitters)[i]) > 0
    /\ pc = "error"
    /\ err.kind = "IndexError"

\* no space of the call is on axis `axis`
NoSpaceOn(axis) ==
    \A i \in DOMAIN AsList(spaces) : AxisOf(AsList(spaces)[i]) # axis

AllTrue(mask, n) == DOMAIN mask = 1..n /\ \A p \in 1..n : mask[p]

\* C17: on an axis no space is configured on, the train and the test mask
\* of every fold are all-true, so the training and the test matrix hold every
\* position of that axis (the matrices are transposed: features are rows,
\* units are columns).
C17_UnconfiguredAxisIsWhole ==
    \A j \in SetUp :
        /\ NoSpaceOn("fa") =>
              /\ AllTrue(folds[j].mask_fa_train, data.nfeatures)
              /\ AllTrue(folds[j].mask_fa_test, data.nfeatures)
              /\ folds[j].samples_train.nrows = data.nfeatures
              /\ folds[j].samples_test.nrows = data.nfeatures
              /\ Len(folds[j].samples_train.cells) = data.nfeatures
              /\ Len(folds[j].samples_test.cells) = data.nfeatures
        /\ NoSpaceOn("sa") =>
              /\ AllTrue(folds[j].mask_sa_train, data.nsamples)
              /\ AllTrue(folds[j].mask_sa_test, data.nsamples)
              /\ folds[j].samples_train.ncols = data.nsamples
              /\ folds[j].samples_test.ncols = data.nsamples
              /\ \A f \in DOMAIN folds[j].samples_train.cells :
                    Len(folds[j].samples_train.cells[f]) = data.nsamples
              /\ \A f \in DOMAIN folds[j].samples_test.cells :
                    Len(folds[j].samples_test.cells[f]) = data.nsamples

\* a fold of the default single space on the unit axis: its unit masks
\* select a part, its feature masks everything
C17_Witness ==
    \E j \in SetUp :
        /\ spaces = NotAList(SaSubjects)
        /\ \E p \in 1..data.nsamples : ~folds[j].mask_sa_train[p]
        /\ \E p \in 1..data.nsamples : ~folds[j].mask_sa_test[p]
        /\ AllTrue(folds[j].mask_fa_train, data.nfeatures)
        /\ folds[j].samples_train.nrows = data.nfeatures
        /\ folds[j].samples_train.ncols < data.nsamples

====
